---- MODULE Spec2Model ----
(***************************************************************************)
(* Orbit propagation and validation engine: the force model, the           *)
(* derivative function, the fixed-step RK4 integrator and the batch        *)
(* orchestrator, with the floating-point arithmetic they compute in.       *)
(***************************************************************************)
EXTENDS Integers, Sequences, FiniteSets, TLC

(***************************************************************************)
(* Floating point.  numpy computes in IEEE-754 binary64; the model uses    *)
(* the same format with a significand of Prec bits instead of 53: values   *)
(* are m * 2^e with 2^(Prec-1) <= |m| < 2^Prec, every operation rounds     *)
(* its exact result to nearest, ties to even, overflow gives an infinity,  *)
(* invalid operations give NaN and division by zero gives an infinity      *)
(* (numpy's default error state warns, it does not raise).  Zero carries   *)
(* no sign and there are no subnormals.                                    *)
(***************************************************************************)
Prec == 14
EMax == 200
EMin == -200

\* F applied to the values of its arguments, each computed once
Force1(F(_), a) == CHOOSE r \in { F(x) : x \in {a} } : TRUE

Force2(F(_, _), a, b) == CHOOSE r \in { F(x, y) : x \in {a}, y \in {b} } : TRUE

Force3(F(_, _, _), a, b, c) ==
    CHOOSE r \in { F(x, y, z) : x \in {a}, y \in {b}, z \in {c} } : TRUE

Pow2(n) == 2 ^ n

AbsI(x) == IF x < 0 THEN -x ELSE x

Sgn(x) == IF x < 0 THEN -1 ELSE 1

\* the number of bits of n, 0 <= n < 2^30
BitLen(n) == CHOOSE b \in 0..30 : n < Pow2(b) /\ (b = 0 \/ Pow2(b - 1) <= n)

Zero == [k |-> "fin", m |-> 0, e |-> 0]

NaN == [k |-> "nan", m |-> 0, e |-> 0]

Inf(s) == [k |-> "inf", m |-> s, e |-> 0]

IsFinite(a) == a.k = "fin"

\* a significand already in range, with its exponent checked for overflow
Pack(s, m, e) ==
    IF e > EMax THEN Inf(s)
    ELSE IF e < EMin THEN Zero
    ELSE [k |-> "fin", m |-> s * m, e |-> e]

\* n * 2^e of b > Prec bits, rounded to Prec bits, ties to even
RoundOff(s, n, e, b) ==
    LET sh == b - Prec
        q  == n \div Pow2(sh)
        r  == n % Pow2(sh)
        h  == Pow2(sh - 1)
        q1 == IF r > h \/ (r = h /\ q % 2 = 1) THEN q + 1 ELSE q
    IN IF q1 = Pow2(Prec)
       THEN Pack(s, Pow2(Prec - 1), e + sh + 1)
       ELSE Pack(s, q1, e + sh)

Round(s, n, e) ==
    IF n = 0 THEN Zero
    ELSE Force1(LAMBDA b : IF b <= Prec
                           THEN Pack(s, n * Pow2(Prec - b), e - (Prec - b))
                           ELSE RoundOff(s, n, e, b),
                BitLen(n))

\* the float nearest to s * n * 2^e (n >= 0), ties to even
fl(s, n, e) == Force3(Round, s, n, e)

FromInt(n) == fl(Sgn(n), AbsI(n), 0)

fneg(a) == Force1(LAMBDA x : [x EXCEPT !.m = -x.m], a)

fabs(a) == Force1(LAMBDA x : [x EXCEPT !.m = AbsI(x.m)], a)

Add(a, b) ==
    IF a.k = "nan" \/ b.k = "nan" THEN NaN
    ELSE IF a.k = "inf" THEN (IF b.k = "inf" /\ b.m # a.m THEN NaN ELSE a)
    ELSE IF b.k = "inf" THEN b
    ELSE IF a.m = 0 THEN b
    ELSE IF b.m = 0 THEN a
    ELSE LET hi == IF a.e >= b.e THEN a ELSE b
             lo == IF a.e >= b.e THEN b ELSE a
             d  == hi.e - lo.e
         IN IF d > Prec + 1 THEN hi
            ELSE Force1(LAMBDA sum : fl(Sgn(sum), AbsI(sum), lo.e),
                        hi.m * Pow2(d) + lo.m)

fadd(a, b) == Force2(Add, a, b)

fsub(a, b) == fadd(a, fneg(b))

Mul(a, b) ==
    IF a.k = "nan" \/ b.k = "nan" THEN NaN
    ELSE IF a.k = "inf" \/ b.k = "inf"
         THEN (IF a.m = 0 \/ b.m = 0 THEN NaN ELSE Inf(Sgn(a.m) * Sgn(b.m)))
    ELSE fl(Sgn(a.m) * Sgn(b.m), AbsI(a.m) * AbsI(b.m), a.e + b.e)

fmul(a, b) == Force2(Mul, a, b)

Div(a, b) ==
    IF a.k = "nan" \/ b.k = "nan" THEN NaN
    ELSE IF a.k = "inf" THEN (IF b.k = "inf" THEN NaN ELSE Inf(Sgn(a.m) * Sgn(b.m)))
    ELSE IF b.k = "inf" THEN Zero
    ELSE IF b.m = 0 THEN (IF a.m = 0 THEN NaN ELSE Inf(Sgn(a.m)))
    ELSE IF a.m = 0 THEN Zero
    ELSE LET n   == AbsI(a.m) * Pow2(Prec + 2)
             d   == AbsI(b.m)
             q   == n \div d
             stk == IF n % d = 0 THEN 0 ELSE 1
         IN fl(Sgn(a.m) * Sgn(b.m), 2 * q + stk, a.e - b.e - (Prec + 3))

fdiv(a, b) == Force2(Div, a, b)

\* the largest r with r * r <= n, by bisection on lo <= r < hi
RECURSIVE ISqrtIn(_, _, _)
ISqrtIn(n, lo, hi) ==
    IF hi - lo <= 1 THEN lo
    ELSE Force1(LAMBDA mid : IF mid * mid <= n
                             THEN ISqrtIn(n, mid, hi)
                             ELSE ISqrtIn(n, lo, mid),
                (lo + hi) \div 2)

Sqrt(a) ==
    IF a.k = "nan" THEN NaN
    ELSE IF a.k = "inf" THEN (IF a.m > 0 THEN a ELSE NaN)
    ELSE IF a.m = 0 THEN Zero
    ELSE IF a.m < 0 THEN NaN
    ELSE LET sh == IF (a.e - (Prec + 2)) % 2 = 0 THEN Prec + 2 ELSE Prec + 1
             n  == a.m * Pow2(sh)
         IN Force1(LAMBDA r : fl(1, 2 * r + (IF r * r = n THEN 0 ELSE 1),
                                 ((a.e - sh) \div 2) - 1),
                   ISqrtIn(n, 0, Pow2(Prec + 1)))

fsqrt(a) == Force1(Sqrt, a)

\* x ** n for a small positive integer n
RECURSIVE fpow(_, _)
fpow(x, n) == IF n = 1 THEN x ELSE fmul(fpow(x, n - 1), x)

\* a < b; every comparison with NaN is false
flt(a, b) == Force1(LAMBDA d : d.k # "nan" /\ d.m < 0, fsub(a, b))

\* the decimal literal n / 10^k
Dec(n, k) == fdiv(FromInt(n), FromInt(10 ^ k))

\* round(|a - b|, places) == 0, as unittest's assertAlmostEqual decides it
RECURSIVE Tol(_)
Tol(places) == IF places = 0 THEN Dec(5, 1) ELSE fdiv(Tol(places - 1), FromInt(10))

AlmostEqual(a, b, places) ==
    \/ a = b
    \/ Force1(LAMBDA d : IsFinite(d) /\ ~flt(Tol(places), d), fabs(fsub(a, b)))

(***************************************************************************)
(* constants.py                                                            *)
(***************************************************************************)
GM_EARTH == Dec(3986004, 1)

RADIUS_EARTH == Dec(6378137, 3)

J2 == Dec(108263, 8)

(***************************************************************************)
(* orbital_mechanics.py: the force model and the derivative function.      *)
(* Vectors are sequences of floats.                                        *)
(***************************************************************************)
\* np.linalg.norm of a 3-vector
norm(v) ==
    Force1(LAMBDA u : fsqrt(fadd(fadd(fmul(u[1], u[1]), fmul(u[2], u[2])),
                                 fmul(u[3], u[3]))),
           v)

\* elementwise operations on arrays of 3 or 6 components
Map2(F(_, _), u, v) ==
    IF Len(u) = 3
    THEN <<F(u[1], v[1]), F(u[2], v[2]), F(u[3], v[3])>>
    ELSE <<F(u[1], v[1]), F(u[2], v[2]), F(u[3], v[3]),
           F(u[4], v[4]), F(u[5], v[5]), F(u[6], v[6])>>

VAdd(u, v) == Force2(LAMBDA a, b : Map2(fadd, a, b), u, v)

VSub(u, v) == Force2(LAMBDA a, b : Map2(fsub, a, b), u, v)

VScale(c, v) == Force2(LAMBDA a, b : Map2(LAMBDA x, y : fmul(a, y), b, b), c, v)

\* lines 40-64, with the position and its norm computed
acceleration_terms(r_vector, r_norm) ==
    LET x == r_vector[1]
        y == r_vector[2]
        z == r_vector[3]
        a_kepler == VScale(fdiv(fneg(GM_EARTH), fpow(r_norm, 3)), r_vector)
    IN Force3(LAMBDA k_j2, z2, r2 :
                 LET ax_j2 == fmul(fmul(k_j2, x),
                                   fsub(fdiv(fmul(FromInt(5), z2), r2), FromInt(1)))
                     ay_j2 == fmul(fmul(k_j2, y),
                                   fsub(fdiv(fmul(FromInt(5), z2), r2), FromInt(1)))
                     az_j2 == fmul(fmul(k_j2, z),
                                   fsub(fdiv(fmul(FromInt(5), z2), r2), FromInt(3)))
                     a_j2  == <<ax_j2, ay_j2, az_j2>>
                 IN VAdd(a_kepler, a_j2),
              fdiv(fmul(fmul(fmul(Dec(15, 1), J2), GM_EARTH), fpow(RADIUS_EARTH, 2)),
                   fpow(r_norm, 5)),
              fpow(z, 2),
              fpow(r_norm, 2))

calculate_acceleration(r_vector) ==
    Force1(LAMBDA r : Force1(LAMBDA r_norm : acceleration_terms(r, r_norm), norm(r)),
           r_vector)

\* the two halves in the other order
get_derivatives_swapped(t, state) ==
    Force2(LAMBDA s, a : <<a[1], a[2], a[3], s[4], s[5], s[6]>>,
           state, calculate_acceleration(<<state[1], state[2], state[3]>>))

\* np.hstack((v_vector, a_vector)); t is not read
get_derivatives(t, state) ==
    Force1(LAMBDA s :
              LET r_vector == <<s[1], s[2], s[3]>>
                  v_vector == <<s[4], s[5], s[6]>>
              IN Force1(LAMBDA a_vector : <<v_vector[1], v_vector[2], v_vector[3],
                                            a_vector[1], a_vector[2], a_vector[3]>>,
                        calculate_acceleration(r_vector)),
           state)

(***************************************************************************)
(* orbital_mechanics.py: runge_kutta_4.                                    *)
(*                                                                         *)
(* Arrays are objects: heap maps a cell to the values of the array stored  *)
(* there, and the program's variables hold cells.  Cell ArgCell is the     *)
(* caller's array (state_initial), cell CurCell the array state_current is *)
(* bound to, and RowCell(r) the storage of row r of state_history.         *)
(***************************************************************************)
MaxSteps == 6

ArgCell == 1

CurCell == 2

RowCell(r) == CurCell + r

NoCall == [n |-> -1]

NoResult == [time |-> <<>>, hist |-> <<>>]

\* inputs of the direct calls: the test's state (7000 km circular orbit) and a
\* state whose first midpoint evaluation falls on the origin when dt = 60
InitialStates ==
    { <<FromInt(7000), Zero, Zero, Zero, Dec(7546, 3), Zero>>,
      <<FromInt(60), Zero, Zero, FromInt(-2), Zero, Zero>> }

TimeSteps == { Dec(3, 1), FromInt(60) }

VARIABLES
    heap,            \* cell -> array values
    rk_pc,           \* "idle", "loop" (inside the for loop), "returned"
    caller,          \* who called runge_kutta_4: "user" or "batch"
    state_initial,   \* cell of the argument
    delta_t,
    num_steps,
    state_history,   \* row -> cell
    time_series,
    state_current,   \* cell
    i,               \* the loop variable
    arg_before,      \* the argument's values when the call was made
    result,          \* the values returned, as they were at the return
    first_call,      \* the first completed call: its inputs, its result, and
                     \* whether a call with other inputs has completed since
    written          \* the caller has written to the returned history

VARIABLES
    force_pc,        \* "idle", or which function returned last: "acc", "deriv"
    force_t,         \* the time argument of get_derivatives
    force_in,        \* the vector argument
    force_out        \* the value returned

VARIABLES
    b_pc,                \* where run_multi_object_simulation_and_validate stands
    list_of_satellites,
    all_results,
    sat_index,           \* objects taken from list_of_satellites so far
    t0,
    r_skyfield_history,
    j,
    final_result_df,
    lookup_failed,       \* objects (positions in the list) with a failed lookup
    DELTA_T_SECONDS,     \* the configuration of simulation.py (lines 22, 25)
    DURATION_HOURS,
    queries              \* for each object taken so far, the calls of satellite.at
                         \* made for it in order: the time asked and the answer

VARIABLES
    live_pc,             \* the demo: "idle", "running" (the animation calls update),
                         \* "raised" (update ended with an exception)
    current_data,        \* one record for each object shown
    elapsed_seconds,
    update_calls,        \* the calls of update so far
    live_query           \* the time of the last call of at() in update

VARIABLES
    local_file,          \* the file data/active_satellites.txt
    load_call            \* the last call of load_tles_smart and how it ended

force_vars == <<force_pc, force_t, force_in, force_out>>

live_vars == <<live_pc, current_data, elapsed_seconds, update_calls, live_query>>

cache_vars == <<local_file, load_call>>

batch_vars == <<b_pc, list_of_satellites, all_results, sat_index, t0,
                r_skyfield_history, j, final_result_df, lookup_failed,
                DELTA_T_SECONDS, DURATION_HOURS, queries>>

rk_vars == <<heap, rk_pc, caller, state_initial, delta_t, num_steps, state_history,
             time_series, state_current, i, arg_before, result, first_call, written>>

\* np.empty(n): the memory holds what the previous call left there
ZerosStale(n) ==
    [col \in 1..n |-> IF time_series = <<>> THEN Zero ELSE time_series[Len(time_series)]]

\* np.zeros(n)
Zeros(n) == [col \in 1..n |-> Zero]

\* the row is left as allocated
StoreRowSkip(h, hist, r, src) == [heap |-> h, hist |-> hist]

\* the row refers to the array src instead of holding a copy of its values
StoreRowByRef(h, hist, r, src) == [heap |-> h, hist |-> [hist EXCEPT ![r] = src]]

\* state_history[r, :] = src   (copies the values of src into the row's storage)
StoreRow(h, hist, r, src) ==
    [heap |-> [h EXCEPT ![hist[r]] = h[src]], hist |-> hist]

\* src.copy()   (a new array, bound to state_current)
Copy(h, src) == [heap |-> [h EXCEPT ![CurCell] = h[src]], cell |-> CurCell]

\* a single slope: s + k1
state_next_euler(s, dt, t_current) ==
    VAdd(s, VScale(dt, get_derivatives(t_current, s)))

\* lines 129-143: the state after one step from s
state_next(s, dt, t_current) ==
    LET half == Dec(5, 1)
        two  == FromInt(2)
    IN Force1(LAMBDA k1 :
       Force1(LAMBDA k2 :
       Force1(LAMBDA k3 :
       Force1(LAMBDA k4 :
          VAdd(s, VScale(fdiv(FromInt(1), FromInt(6)),
                         VAdd(VAdd(VAdd(k1, VScale(two, k2)), VScale(two, k3)), k4))),
          VScale(dt, get_derivatives(fadd(t_current, dt), VAdd(s, k3)))),
          VScale(dt, get_derivatives(fadd(t_current, fmul(half, dt)),
                                     VAdd(s, VScale(half, k2))))),
          VScale(dt, get_derivatives(fadd(t_current, fmul(half, dt)),
                                     VAdd(s, VScale(half, k1))))),
          VScale(dt, get_derivatives(t_current, s)))

\* time_series[i + 1] = t_current + delta_t
NextTime(t_current, dt) == fadd(t_current, dt)

\* lines 114-122, with the argument in cell ArgCell of h
Enter(h, dt, n, who) ==
    LET num_variables == Len(h[ArgCell])
        rows   == [r \in 1..(n + 1) |-> RowCell(r)]
        h0     == [c \in 1..RowCell(n + 1) |->
                      IF c = ArgCell THEN h[ArgCell] ELSE Zeros(num_variables)]
        stored == StoreRow(h0, rows, 1, ArgCell)
        copied == Copy(stored.heap, ArgCell)
    IN /\ heap' = copied.heap
       /\ state_history' = stored.hist
       /\ time_series' = Zeros(n + 1)
       /\ state_current' = copied.cell
       /\ state_initial' = ArgCell
       /\ delta_t' = dt
       /\ num_steps' = n
       /\ i' = 0
       /\ caller' = who
       /\ arg_before' = h[ArgCell]
       /\ written' = FALSE
       /\ result' = NoResult
       /\ rk_pc' = "loop"

\* one iteration of the for loop (lines 125-148)
RKStep ==
    /\ rk_pc = "loop"
    /\ i < num_steps
    /\ LET t_current == time_series[i + 1]
       IN \E nxt \in { state_next(heap[state_current], delta_t, t_current) } :
          \E stored \in { StoreRow([heap EXCEPT ![CurCell] = nxt],
                                   state_history, i + 2, CurCell) } :
             /\ heap' = stored.heap
             /\ state_history' = stored.hist
             /\ state_current' = CurCell
             /\ time_series' =
                    [time_series EXCEPT ![i + 2] = NextTime(t_current, delta_t)]
    /\ i' = i + 1
    /\ UNCHANGED <<rk_pc, caller, state_initial, delta_t, num_steps, arg_before,
                   result, first_call, written>>
    /\ UNCHANGED <<force_vars, batch_vars>>
    /\ UNCHANGED <<live_vars, cache_vars>>

Returned == [time |-> time_series,
             hist |-> [r \in 1..Len(state_history) |-> heap[state_history[r]]]]

\* the call in progress has the inputs of the first completed call
SameInputs ==
    /\ first_call # NoCall
    /\ first_call.n = num_steps
    /\ first_call.dt = delta_t
    /\ first_call.s0 = arg_before

\* line 150: return time_series, state_history
RKReturn ==
    /\ rk_pc = "loop"
    /\ i = num_steps
    /\ rk_pc' = "returned"
    /\ result' = Returned
    /\ first_call' = IF first_call = NoCall
                     THEN [n |-> num_steps, dt |-> delta_t, s0 |-> arg_before,
                           out |-> Returned, other |-> FALSE]
                     ELSE [first_call EXCEPT !.other = @ \/ ~SameInputs]
    /\ UNCHANGED <<heap, caller, state_initial, delta_t, num_steps, state_history,
                   time_series, state_current, i, arg_before, written>>
    /\ UNCHANGED <<force_vars, batch_vars>>
    /\ UNCHANGED <<live_vars, cache_vars>>

\* a caller passes an array of its own to runge_kutta_4
UserCall ==
    /\ rk_pc \in {"idle", "returned"}
    /\ \E s0 \in InitialStates, dt \in TimeSteps, n \in 0..MaxSteps :
          Enter([heap EXCEPT ![ArgCell] = s0], dt, n, "user")
    /\ UNCHANGED <<first_call, force_vars, batch_vars>>
    /\ UNCHANGED <<live_vars, cache_vars>>

\* the caller writes into the history it was handed
UserWriteHistory ==
    /\ rk_pc = "returned"
    /\ caller = "user"
    /\ ~written
    /\ \E r \in 1..Len(state_history) :
          heap' = [heap EXCEPT ![state_history[r]][1] = FromInt(1)]
    /\ written' = TRUE
    /\ UNCHANGED <<rk_pc, caller, state_initial, delta_t, num_steps, state_history,
                   time_series, state_current, i, arg_before, result, first_call>>
    /\ UNCHANGED <<force_vars, batch_vars>>
    /\ UNCHANGED <<live_vars, cache_vars>>

(***************************************************************************)
(* Direct calls of the force model and of the derivative function.         *)
(***************************************************************************)
Coords == { Zero, FromInt(7000), FromInt(-6500), FromInt(100) }

Speeds == { Zero, Dec(7546, 3) }

Times == { Zero, FromInt(60), NaN }

Positions == { <<cx, cy, cz>> : cx \in Coords, cy \in Coords, cz \in Coords }

Velocities == { <<sx, sy, sz>> : sx \in Speeds, sy \in Speeds, sz \in Speeds }

CallAcceleration ==
    /\ force_pc = "idle"
    /\ \E r_vector \in Positions :
          /\ force_in' = r_vector
          /\ force_out' = calculate_acceleration(r_vector)
    /\ force_t' = Zero
    /\ force_pc' = "acc"
    /\ UNCHANGED <<rk_vars, batch_vars>>
    /\ UNCHANGED <<live_vars, cache_vars>>

CallDerivatives ==
    /\ force_pc = "idle"
    /\ \E t \in Times, r_vector \in Positions, v_vector \in Velocities :
          /\ force_t' = t
          /\ force_in' = r_vector \o v_vector
          /\ force_out' = get_derivatives(t, r_vector \o v_vector)
    /\ force_pc' = "deriv"
    /\ UNCHANGED <<rk_vars, batch_vars>>
    /\ UNCHANGED <<live_vars, cache_vars>>

\* the caller has taken the value; the next call can be made
ForceDone ==
    /\ force_pc \in {"acc", "deriv"}
    /\ force_pc' = "idle"
    /\ force_t' = Zero
    /\ force_in' = <<>>
    /\ force_out' = <<>>
    /\ UNCHANGED <<rk_vars, batch_vars>>
    /\ UNCHANGED <<live_vars, cache_vars>>

(***************************************************************************)
(* simulation.py: run_multi_object_simulation_and_validate.                *)
(*                                                                         *)
(* A satellite is what the function reads of an EarthSatellite: its name,  *)
(* its catalog number, its epoch and what at() answers.  Time stamps are   *)
(* kept in seconds.  fails is the set of elapsed times at which the        *)
(* reference propagator fails for the satellite.                           *)
(***************************************************************************)
MaxObjects == 2

\* the values the two configuration constants can be given: the values of the
\* source (60 s, 1 h), a larger step that divides the duration, and one that
\* does not
RunParameters ==
    { [DELTA_T_SECONDS |-> 60, DURATION_HOURS |-> 1],
      [DELTA_T_SECONDS |-> 1800, DURATION_HOURS |-> 1],
      [DELTA_T_SECONDS |-> 1000, DURATION_HOURS |-> 1] }

\* int(DURATION_HOURS * 3600 / DELTA_T_SECONDS)
NUM_STEPS == (DURATION_HOURS * 3600) \div DELTA_T_SECONDS

\* np.arange(start, stop, step) on integers
arange(start, stop, step) ==
    [n \in 1..((stop - start + step - 1) \div step) |-> start + (n - 1) * step]

sim_time_series == arange(0, DURATION_HOURS * 3600 + DELTA_T_SECONDS, DELTA_T_SECONDS)

Catalogue ==
    { [name |-> "ISS", satnum |-> 25544, epoch |-> 1000, fails |-> {},
       state0 |-> <<FromInt(7000), Zero, Zero, Zero, Dec(7546, 3), Zero>>],
      [name |-> "LOW", satnum |-> 90001, epoch |-> 2000, fails |-> {},
       state0 |-> <<FromInt(60), Zero, Zero, FromInt(-2), Zero, Zero>>],
      [name |-> "OLD", satnum |-> 90002, epoch |-> 3000, fails |-> {60, 150, 1800},
       state0 |-> <<Zero, FromInt(7000), Zero, Dec(-7546, 3), Zero, Zero>>] }

BatchLists == UNION { [1..m -> Catalogue] : m \in 0..MaxObjects }

\* get_initial_state_and_time(satellite, ts): the epoch and the state at the epoch
get_initial_state_and_time(satellite) ==
    [t0 |-> satellite.epoch, state_initial |-> satellite.state0]

\* what satellite.at(t).position.km can answer: the reference position, or, where
\* the propagator fails, a position of NaN (the propagator's error is left in a
\* message nobody reads) or an exception
ReferenceAnswers(satellite, t) ==
    LET elapsed == t - satellite.epoch
        r0 == SubSeq(satellite.state0, 1, 3)
        v0 == SubSeq(satellite.state0, 4, 6)
    IN IF elapsed \in satellite.fails
       THEN { [raised |-> FALSE, km |-> <<NaN, NaN, NaN>>],
              [raised |-> TRUE, km |-> <<>>] }
       ELSE { [raised |-> FALSE, km |-> VAdd(r0, VScale(FromInt(elapsed), v0))] }

\* lines 22-28 (the configuration the module is loaded with) and lines 51-54
BatchStart ==
    /\ b_pc = "idle"
    /\ \E sats \in BatchLists : list_of_satellites' = sats
    /\ \E p \in RunParameters :
          /\ DELTA_T_SECONDS' = p.DELTA_T_SECONDS
          /\ DURATION_HOURS' = p.DURATION_HOURS
    /\ all_results' = <<>>
    /\ sat_index' = 0
    /\ lookup_failed' = {}
    /\ queries' = <<>>
    /\ b_pc' = "for"
    /\ UNCHANGED <<t0, r_skyfield_history, j, final_result_df, rk_vars, force_vars>>
    /\ UNCHANGED <<live_vars, cache_vars>>

\* lines 57-76: the next satellite, its initial state, and the call of runge_kutta_4
BatchPropagate ==
    /\ b_pc = "for"
    /\ sat_index < Len(list_of_satellites)
    /\ LET got == get_initial_state_and_time(list_of_satellites[sat_index + 1])
       IN /\ t0' = got.t0
          /\ Enter([heap EXCEPT ![ArgCell] = got.state_initial],
                   FromInt(DELTA_T_SECONDS), NUM_STEPS, "batch")
    /\ sat_index' = sat_index + 1
    /\ b_pc' = "rk"
    /\ UNCHANGED <<list_of_satellites, all_results, r_skyfield_history, j,
                   final_result_df, lookup_failed, DELTA_T_SECONDS, DURATION_HOURS,
                   queries, first_call, force_vars>>
    /\ UNCHANGED <<live_vars, cache_vars>>

\* lines 80-83
BatchReference ==
    /\ b_pc = "rk"
    /\ rk_pc = "returned"
    /\ r_skyfield_history' = [n \in 1..(NUM_STEPS + 1) |-> Zeros(3)]
    /\ j' = 0
    /\ queries' = Append(queries, <<>>)
    /\ b_pc' = "lookup"
    /\ UNCHANGED <<list_of_satellites, all_results, sat_index, t0, final_result_df,
                   lookup_failed, DELTA_T_SECONDS, DURATION_HOURS, rk_vars,
                   force_vars>>
    /\ UNCHANGED <<live_vars, cache_vars>>

\* lines 86-89: one iteration of the loop over t_skyfield_series
BatchLookup ==
    /\ b_pc = "lookup"
    /\ j < Len(sim_time_series)
    /\ LET satellite  == list_of_satellites[sat_index]
           t_skyfield == t0 + sim_time_series[j + 1]
       IN \E answer \in ReferenceAnswers(satellite, t_skyfield) :
             /\ queries' = [queries EXCEPT ![sat_index] =
                                Append(@, [t |-> t_skyfield, km |-> answer.km])]
             /\ lookup_failed' = IF answer.raised \/ answer.km = <<NaN, NaN, NaN>>
                                 THEN lookup_failed \cup {sat_index}
                                 ELSE lookup_failed
             /\ IF answer.raised \/ j + 1 > Len(r_skyfield_history)
                THEN /\ b_pc' = "raised"
                     /\ UNCHANGED <<r_skyfield_history, j>>
                ELSE /\ r_skyfield_history' =
                            [r_skyfield_history EXCEPT ![j + 1] = answer.km]
                     /\ j' = j + 1
                     /\ b_pc' = "lookup"
    /\ UNCHANGED <<list_of_satellites, all_results, sat_index, t0, final_result_df,
                   DELTA_T_SECONDS, DURATION_HOURS, rk_vars, force_vars>>
    /\ UNCHANGED <<live_vars, cache_vars>>

\* the distance at the first sample instead of the last
error_magnitude_first ==
    norm(VSub(SubSeq(heap[state_history[1]], 1, 3), r_skyfield_history[1]))

\* lines 97-104
error_magnitude ==
    LET final_r_rk4      == SubSeq(heap[state_history[Len(state_history)]], 1, 3)
        final_r_skyfield == r_skyfield_history[Len(r_skyfield_history)]
    IN norm(VSub(final_r_rk4, final_r_skyfield))

\* lines 111-120: the rows of df_orbit
df_orbit ==
    LET satellite == list_of_satellites[sat_index]
    IN Force1(LAMBDA err :
                 [n \in 1..Len(state_history) |->
                    LET s == heap[state_history[n]]
                    IN [rx |-> s[1], ry |-> s[2], rz |-> s[3],
                        vx |-> s[4], vy |-> s[5], vz |-> s[6],
                        time_step |-> sim_time_series[n],
                        satellite_name |-> satellite.name,
                        satellite_id |-> satellite.satnum,
                        error_km |-> err]],
              error_magnitude)

\* lines 97-122, after the loop over t_skyfield_series
BatchAppend ==
    /\ b_pc = "lookup"
    /\ j = Len(sim_time_series)
    /\ all_results' = Append(all_results, df_orbit)
    /\ b_pc' = "for"
    /\ UNCHANGED <<list_of_satellites, sat_index, t0, r_skyfield_history, j,
                   final_result_df, lookup_failed, DELTA_T_SECONDS, DURATION_HOURS,
                   queries, rk_vars, force_vars>>
    /\ UNCHANGED <<live_vars, cache_vars>>

RECURSIVE concat(_)
concat(frames) ==
    IF frames = <<>> THEN <<>> ELSE frames[1] \o concat(Tail(frames))

\* lines 125-127: pd.concat raises ValueError on an empty list
BatchConcat ==
    /\ b_pc = "for"
    /\ sat_index = Len(list_of_satellites)
    /\ IF all_results = <<>>
       THEN /\ b_pc' = "raised"
            /\ UNCHANGED final_result_df
       ELSE /\ b_pc' = "returned"
            /\ final_result_df' = concat(all_results)
    /\ UNCHANGED <<list_of_satellites, all_results, sat_index, t0, r_skyfield_history,
                   j, lookup_failed, DELTA_T_SECONDS, DURATION_HOURS, queries,
                   rk_vars, force_vars>>
    /\ UNCHANGED <<live_vars, cache_vars>>

(***************************************************************************)
(* demo_apresentacao.py: the objects shown, and update, which the animation *)
(* calls once for each frame.                                              *)
(***************************************************************************)
MaxLive == 2

MaxFrames == 3

DELTA_T == 30

SPEED_MULTIPLIER == 5

LiveLists == UNION { [1..m -> Catalogue] : m \in 0..MaxLive }

\* the whole number of seconds a float of whole value stands for
Seconds(x) == IF x.e >= 0 THEN x.m * Pow2(x.e) ELSE x.m \div Pow2(-x.e)

\* a single slope in place of the four
inline_step_euler(state) ==
    VAdd(state, VScale(FromInt(DELTA_T), get_derivatives(Zero, state)))

\* lines 146-152: the step written in update
inline_step(state) ==
    Force1(LAMBDA k1 :
    Force1(LAMBDA k2 :
    Force1(LAMBDA k3 :
    Force1(LAMBDA k4 :
       VAdd(state, VScale(fdiv(FromInt(1), FromInt(6)),
                          VAdd(VAdd(VAdd(k1, VScale(FromInt(2), k2)),
                                    VScale(FromInt(2), k3)), k4))),
       VScale(FromInt(DELTA_T), get_derivatives(Zero, VAdd(state, k3)))),
       VScale(FromInt(DELTA_T),
              get_derivatives(Zero, VAdd(state, VScale(Dec(5, 1), k2))))),
       VScale(FromInt(DELTA_T),
              get_derivatives(Zero, VAdd(state, VScale(Dec(5, 1), k1))))),
       VScale(FromInt(DELTA_T), get_derivatives(Zero, state)))

RECURSIVE inline_steps(_, _)
inline_steps(state, n) ==
    IF n = 0 THEN state
    ELSE Force1(LAMBDA nxt : inline_steps(nxt, n - 1), inline_step(state))

\* one step for each frame
advance_object_once(state) == inline_step(state)

\* lines 143-152: for _ in range(SPEED_MULTIPLIER)
advance_object(state) == inline_steps(state, SPEED_MULTIPLIER)

\* lines 57-77 and 126: the objects selected, each with its state at its epoch
LiveStart ==
    /\ live_pc = "idle"
    /\ \E sats \in LiveLists :
          current_data' =
              [n \in 1..Len(sats) |->
                  LET got == get_initial_state_and_time(sats[n])
                  IN [state |-> got.state_initial, sat_obj |-> sats[n],
                      t0 |-> got.t0, name |-> sats[n].name]]
    /\ elapsed_seconds' = Zero
    /\ update_calls' = 0
    /\ live_query' = 0
    /\ live_pc' = "running"
    /\ UNCHANGED <<rk_vars, force_vars, batch_vars, cache_vars>>

\* the call the target's states are compared with:
\* runge_kutta_4(initial state of the target, DELTA_T, SPEED_MULTIPLIER * MaxFrames)
CompareCall ==
    /\ live_pc = "running"
    /\ update_calls = 0
    /\ rk_pc = "idle"
    /\ current_data # <<>>
    /\ Enter([heap EXCEPT ![ArgCell] = current_data[1].state],
             FromInt(DELTA_T), SPEED_MULTIPLIER * MaxFrames, "demo")
    /\ UNCHANGED <<first_call, force_vars, batch_vars, live_vars, cache_vars>>

\* lines 131-205.  With no object, xs[0] raises (line 169); at() can raise
\* (line 182).  Both come after the states and the clock are updated.
\* The animation starts once the comparison call, where there is one, is over.
update ==
    /\ live_pc = "running"
    /\ update_calls < MaxFrames
    /\ current_data = <<>> \/ rk_pc = "returned"
    /\ \E moved \in { [n \in 1..Len(current_data) |->
                          [current_data[n] EXCEPT !.state = advance_object(@)]] } :
       \E clock \in { fadd(elapsed_seconds, FromInt(DELTA_T * SPEED_MULTIPLIER)) } :
          /\ current_data' = moved
          /\ elapsed_seconds' = clock
          /\ IF moved = <<>>
             THEN /\ live_pc' = "raised"
                  /\ UNCHANGED live_query
             ELSE LET target_sat         == moved[1]
                      t_current_skyfield == target_sat.t0 + Seconds(clock)
                  IN /\ live_query' = t_current_skyfield
                     /\ \E answer \in ReferenceAnswers(target_sat.sat_obj,
                                                      t_current_skyfield) :
                           live_pc' = IF answer.raised THEN "raised" ELSE "running"
    /\ update_calls' = update_calls + 1
    /\ UNCHANGED <<rk_vars, force_vars, batch_vars, cache_vars>>

(***************************************************************************)
(* data_handler.py: load_tles_smart, with the file it keeps and the world   *)
(* around it (time passing, the file put in place or removed by hand).     *)
(* The age of the file is counted in hours.  The content of a file is      *)
(* "old" (what was on disk) or "new" (what the URL serves now).            *)
(***************************************************************************)
MaxAgeHours == 48

AgeStep == 12

MaxDaysChoices == {1, 2}

NoFile == [exists |-> FALSE, age |-> 0, data |-> "none"]

NoLoad == [ended |-> "never"]

\* what load.tle_file(url, filename=filepath, reload=True) does to the file and
\* what it gives: with reload the loader removes an existing file before the
\* download starts (removes), or replaces it only once the download is complete
loader_reload(file, removes, network) ==
    IF network = "ok"
    THEN [file |-> [exists |-> TRUE, age |-> 0, data |-> "new"],
          raised |-> FALSE, satellites |-> "new"]
    ELSE [file |-> IF removes THEN NoFile ELSE file,
          raised |-> TRUE, satellites |-> "none"]

\* load.tle_file(filepath, reload=False): the file is opened, no URL is involved
loader_local(file) ==
    IF file.exists
    THEN [raised |-> FALSE, satellites |-> file.data]
    ELSE [raised |-> TRUE, satellites |-> "none"]

\* lines 36-101
load_tles_smart ==
    \E max_days \in MaxDaysChoices, network \in {"ok", "down"}, removes \in BOOLEAN :
        LET download_needed ==
                ~(local_file.exists /\ local_file.age < max_days * 24)
            try == IF download_needed
                   THEN loader_reload(local_file, removes, network)
                   ELSE [file |-> local_file] @@ loader_local(local_file)
            fallback == download_needed /\ try.file.exists
            satellites ==
                IF ~try.raised THEN try.satellites
                ELSE IF fallback THEN loader_local(try.file).satellites
                ELSE "none"
        IN /\ local_file' = try.file
           /\ load_call' = [ended |-> "returned",
                            max_days |-> max_days,
                            before |-> local_file,
                            download_needed |-> download_needed,
                            network_used |-> download_needed,
                            download_failed |-> download_needed /\ try.raised,
                            satellites |-> satellites]
    /\ UNCHANGED <<rk_vars, force_vars, batch_vars, live_vars>>

\* half a day goes by
TimePasses ==
    /\ local_file.exists
    /\ local_file.age < MaxAgeHours
    /\ local_file' = [local_file EXCEPT !.age = @ + AgeStep]
    /\ UNCHANGED <<load_call, rk_vars, force_vars, batch_vars, live_vars>>

\* somebody copies a file into data/
PutFile ==
    /\ ~local_file.exists
    /\ local_file' = [exists |-> TRUE, age |-> 0, data |-> "old"]
    /\ UNCHANGED <<load_call, rk_vars, force_vars, batch_vars, live_vars>>

\* somebody removes the file
RemoveFile ==
    /\ local_file.exists
    /\ local_file' = NoFile
    /\ UNCHANGED <<load_call, rk_vars, force_vars, batch_vars, live_vars>>

vars == <<rk_vars, force_vars, batch_vars, live_vars, cache_vars>>

Init ==
    /\ heap = << <<>> >>
    /\ rk_pc = "idle"
    /\ caller = "user"
    /\ state_initial = ArgCell
    /\ delta_t = Zero
    /\ num_steps = 0
    /\ state_history = <<>>
    /\ time_series = <<>>
    /\ state_current = ArgCell
    /\ i = 0
    /\ arg_before = <<>>
    /\ result = NoResult
    /\ first_call = NoCall
    /\ written = FALSE
    /\ force_pc = "idle"
    /\ force_t = Zero
    /\ force_in = <<>>
    /\ force_out = <<>>
    /\ b_pc = "idle"
    /\ list_of_satellites = <<>>
    /\ all_results = <<>>
    /\ sat_index = 0
    /\ t0 = 0
    /\ r_skyfield_history = <<>>
    /\ j = 0
    /\ final_result_df = <<>>
    /\ lookup_failed = {}
    /\ DELTA_T_SECONDS = 60
    /\ DURATION_HOURS = 1
    /\ queries = <<>>
    /\ live_pc = "idle"
    /\ current_data = <<>>
    /\ elapsed_seconds = Zero
    /\ update_calls = 0
    /\ live_query = 0
    /\ local_file = NoFile
    /\ load_call = NoLoad

NextRK == UserCall \/ RKStep \/ RKReturn \/ UserWriteHistory

NextForce == CallAcceleration \/ CallDerivatives \/ ForceDone

NextBatch ==
    \/ BatchStart
    \/ BatchPropagate
    \/ RKStep
    \/ RKReturn
    \/ BatchReference
    \/ BatchLookup
    \/ BatchAppend
    \/ BatchConcat

NextLive == LiveStart \/ CompareCall \/ RKStep \/ RKReturn \/ update

NextCache == load_tles_smart \/ TimePasses \/ PutFile \/ RemoveFile

\* direct calls of runge_kutta_4
SpecRK == Init /\ [][NextRK]_vars

\* direct calls of calculate_acceleration and get_derivatives
SpecForce == Init /\ [][NextForce]_vars

\* one batch run
SpecBatch == Init /\ [][NextBatch]_vars

\* the demo
SpecLive == Init /\ [][NextLive]_vars

\* calls of load_tles_smart
SpecCache == Init /\ [][NextCache]_vars
(***************************************************************************)
(* The claims.                                                             *)
(***************************************************************************)
BatchEnded == b_pc \in {"returned", "raised"}

\* the rows of final_result_df that belong to the n-th object of the batch
RowsOf(n) ==
    { m \in 1..Len(final_result_df) :
         (n - 1) * (NUM_STEPS + 1) < m /\ m <= n * (NUM_STEPS + 1) }

HasFullTrajectory(n) ==
    /\ n * (NUM_STEPS + 1) <= Len(final_result_df)
    /\ \A m \in RowsOf(n) :
          final_result_df[m].satellite_name = list_of_satellites[n].name

FiniteState(row) ==
    /\ IsFinite(row.rx) /\ IsFinite(row.ry) /\ IsFinite(row.rz)
    /\ IsFinite(row.vx) /\ IsFinite(row.vy) /\ IsFinite(row.vz)

\* C1: a call that has returned, for any initial state and any num_steps >= 0,
\* returned num_steps + 1 times and num_steps + 1 states, the first state being
\* the initial state as it was passed and the first time being 0.
C1_LengthAndFirstSample ==
    rk_pc = "returned" =>
        /\ Len(result.time) = num_steps + 1
        /\ Len(result.hist) = num_steps + 1
        /\ result.hist[1] = arg_before
        /\ result.time[1] = Zero

C1_Witness ==
    /\ rk_pc = "returned"
    /\ num_steps = 0
    /\ result.hist = <<arg_before>>

\* C2: in the time series a call returns, the n-th time (counting from 0) is
\* exactly n * dt.
C2_ExactTimes ==
    rk_pc = "returned" =>
        \A n \in 1..Len(result.time) : result.time[n] = fmul(FromInt(n - 1), delta_t)

\* C3: from the call on, through the return and any later write of the caller to
\* the returned history, the caller's array holds the values it held at the call.
C3_InputUnchanged ==
    rk_pc # "idle" => heap[state_initial] = arg_before

C3_Witness ==
    /\ rk_pc = "returned"
    /\ num_steps > 0
    /\ written
    /\ heap[state_history[1]] # arg_before

\* C4: a call with the inputs of the first completed call returns what the first
\* call returned, whatever calls were made in between.
C4_Deterministic ==
    (rk_pc = "returned" /\ SameInputs) => result = first_call.out

C4_Witness ==
    /\ rk_pc = "returned"
    /\ SameInputs
    /\ first_call.other
    /\ num_steps = MaxSteps

\* C5: a batch run of M objects, M >= 0, returns M * (NUM_STEPS + 1) rows,
\* NUM_STEPS + 1 for each object.
C5_RowCount ==
    BatchEnded =>
        /\ b_pc = "returned"
        /\ Len(final_result_df) = Len(list_of_satellites) * (NUM_STEPS + 1)
        /\ \A n \in 1..Len(list_of_satellites) : HasFullTrajectory(n)

\* C6: a batch run in which the reference lookup failed for an object still
\* returns, with the full trajectory of every other object, and the failing
\* object's rows carry the failure (an error that is not a number).
C6_FailureIsolated ==
    (BatchEnded /\ lookup_failed # {}) =>
        /\ b_pc = "returned"
        /\ \A n \in 1..Len(list_of_satellites) :
              /\ n \notin lookup_failed => HasFullTrajectory(n)
              /\ n \in lookup_failed =>
                    \A m \in RowsOf(n) : ~IsFinite(final_result_df[m].error_km)

\* C7: calculate_acceleration never returns a value for a position of magnitude 0.
C7_DomainError ==
    ~(force_pc = "acc" /\ norm(force_in) = Zero)

\* C8: every row of an object's result whose state is not finite carries an
\* anomaly flag.
C8_DivergenceFlagged ==
    \A n \in 1..Len(all_results) :
        \A m \in 1..Len(all_results[n]) :
            ~FiniteState(all_results[n][m]) => "anomaly" \in DOMAIN all_results[n][m]

\* C9: for every state and every time argument, get_derivatives returns six
\* components, the first three the velocity as passed and the last three the
\* acceleration at the position.
C9_Derivatives ==
    force_pc = "deriv" =>
        /\ Len(force_out) = 6
        /\ SubSeq(force_out, 1, 3) = SubSeq(force_in, 4, 6)
        /\ SubSeq(force_out, 4, 6) = calculate_acceleration(SubSeq(force_in, 1, 3))

C9_Witness ==
    /\ force_pc = "deriv"
    /\ force_t = NaN
    /\ force_in[5] = Dec(7546, 3)
    /\ force_in[1] = FromInt(7000)
    /\ IsFinite(force_out[4]) /\ force_out[4] # Zero

\* C10: at r = [7000, 0, 0] the magnitude of the acceleration agrees with
\* GM / |r|^2 to 5 places, its x component is negative and its y and z components
\* are zero to 10 places.
C10_TwoBodyAt7000 ==
    (force_pc = "acc" /\ force_in = <<FromInt(7000), Zero, Zero>>) =>
        /\ AlmostEqual(fdiv(GM_EARTH, fpow(norm(force_in), 2)), norm(force_out), 5)
        /\ flt(force_out[1], Zero)
        /\ AlmostEqual(force_out[2], Zero, 10)
        /\ AlmostEqual(force_out[3], Zero, 10)

\* the step s + (1/6)*(k1 + 2*k2 + 2*k3 + k4) with k1 = dt*f(s),
\* k2 = dt*f(s + 0.5*k1), k3 = dt*f(s + 0.5*k2), k4 = dt*f(s + k3), where f is
\* get_derivatives as a function of the state alone
rk4_formula(s, dt) ==
    Force1(LAMBDA k1 :
    Force1(LAMBDA k2 :
    Force1(LAMBDA k3 :
    Force1(LAMBDA k4 :
       VAdd(s, VScale(fdiv(FromInt(1), FromInt(6)),
                      VAdd(VAdd(VAdd(k1, VScale(FromInt(2), k2)),
                                VScale(FromInt(2), k3)), k4))),
       VScale(dt, get_derivatives(Zero, VAdd(s, k3)))),
       VScale(dt, get_derivatives(Zero, VAdd(s, VScale(Dec(5, 1), k2))))),
       VScale(dt, get_derivatives(Zero, VAdd(s, VScale(Dec(5, 1), k1))))),
       VScale(dt, get_derivatives(Zero, s)))

\* C11: in the history as a call returns it, sample i+1 is the RK4 step
\* s + (1/6)*(k1 + 2*k2 + 2*k3 + k4) applied to sample i, for every i in
\* 0..num_steps-1.
C11_StepRelation ==
    (rk_pc = "returned" /\ ~written) =>
        \A n \in 1..num_steps :
            result.hist[n + 1] = rk4_formula(result.hist[n], delta_t)

C11_Witness ==
    /\ rk_pc = "returned"
    /\ num_steps = MaxSteps
    /\ \A n \in 1..num_steps :
          /\ result.hist[n + 1] # result.hist[n]
          /\ \A c \in 1..6 : IsFinite(result.hist[n + 1][c])

\* C12: for every configuration of the step size and the duration, the calls of
\* the reference propagator made for an object are, in order, one for each sample
\* index j in 0..NUM_STEPS at the time epoch + j * DELTA_T_SECONDS: never more
\* than NUM_STEPS + 1 of them, and exactly NUM_STEPS + 1 once the object's
\* rows are in all_results.
C12_OneQueryPerSample ==
    \A n \in 1..Len(queries) :
        /\ Len(queries[n]) <= NUM_STEPS + 1
        /\ \A m \in 1..Len(queries[n]) :
              queries[n][m].t = list_of_satellites[n].epoch + (m - 1) * DELTA_T_SECONDS
        /\ n <= Len(all_results) => Len(queries[n]) = NUM_STEPS + 1

\* the distance between the position in the last row of the n-th object's rows
\* and what the reference answered for that object at epoch + NUM_STEPS * dt
FinalError(n) ==
    LET last  == all_results[n][NUM_STEPS + 1]
        final == list_of_satellites[n].epoch + NUM_STEPS * DELTA_T_SECONDS
        ref   == CHOOSE q \in { queries[n][m] : m \in 1..Len(queries[n]) } : q.t = final
    IN norm(VSub(<<last.rx, last.ry, last.rz>>, ref.km))

\* C13: every row of an object, in its own rows and in the consolidated result,
\* carries as error_km the distance between the integrator's position at the
\* final sample and the reference position at epoch + NUM_STEPS * dt of that
\* object.
C13_ErrorAtFinalSample ==
    \A n \in 1..Len(all_results) :
        \E err \in { FinalError(n) } :
            /\ \A m \in 1..Len(all_results[n]) : all_results[n][m].error_km = err
            /\ b_pc = "returned" =>
                  \A m \in RowsOf(n) : final_result_df[m].error_km = err

C13_Witness ==
    /\ b_pc = "returned"
    /\ Len(list_of_satellites) = 2
    /\ LET e1 == final_result_df[1].error_km
           e2 == final_result_df[Len(final_result_df)].error_km
       IN /\ IsFinite(e1) /\ IsFinite(e2)
          /\ e1 # Zero /\ e2 # Zero
          /\ e1 # e2

\* C14: after k calls of update the clock is k * SPEED_MULTIPLIER * DELTA_T, every
\* object's state is its initial state advanced by k * SPEED_MULTIPLIER steps, and
\* the reference was last asked for the target's epoch plus that same time.
C14_ClockAndSteps ==
    live_pc # "idle" =>
        /\ elapsed_seconds = FromInt(update_calls * SPEED_MULTIPLIER * DELTA_T)
        /\ \A n \in 1..Len(current_data) :
              current_data[n].state =
                  inline_steps(current_data[n].sat_obj.state0,
                               update_calls * SPEED_MULTIPLIER)
        /\ (update_calls >= 1 /\ current_data # <<>>) =>
              live_query = current_data[1].sat_obj.epoch
                              + update_calls * SPEED_MULTIPLIER * DELTA_T

C14_Witness ==
    /\ live_pc = "running"
    /\ update_calls = 3
    /\ Len(current_data) = 2
    /\ current_data[1].name # current_data[2].name
    /\ \A n \in 1..2 : \A c \in 1..6 : IsFinite(current_data[n].state[c])
    /\ live_query = current_data[1].t0 + 450
    /\ elapsed_seconds = FromInt(450)

\* C16: after n inline steps the target's state is sample n of
\* runge_kutta_4(its initial state, DELTA_T, num_steps), for every n the demo
\* shows (the multiples of SPEED_MULTIPLIER up to num_steps).
C16_InlineStepIsRK4 ==
    (live_pc # "idle" /\ rk_pc = "returned") =>
        /\ result.hist[1] = current_data[1].sat_obj.state0
        /\ current_data[1].state = result.hist[update_calls * SPEED_MULTIPLIER + 1]

C16_Witness ==
    /\ live_pc = "running"
    /\ rk_pc = "returned"
    /\ update_calls = MaxFrames
    /\ num_steps = update_calls * SPEED_MULTIPLIER
    /\ current_data[1].state # current_data[1].sat_obj.state0
    /\ \A c \in 1..6 : IsFinite(current_data[1].state[c])

\* C15: a call of load_tles_smart goes to the network exactly when the file was
\* missing or at least max_days old; with a file younger than max_days it gives
\* that file's satellites; and when the download it needed failed and there was
\* a file, it gives that file's satellites instead of None.
C15_CachePolicy ==
    load_call.ended = "returned" =>
        LET before == load_call.before
            stale  == ~before.exists \/ before.age >= load_call.max_days * 24
        IN /\ load_call.network_used <=> stale
           /\ ~stale => load_call.satellites = before.data
           /\ (load_call.download_failed /\ before.exists) =>
                 load_call.satellites = before.data
====
